---------------------------- MODULE Spec2Model ----------------------------
(***************************************************************************)
(* A model of the two cipher programs of the repository:                   *)
(*   - playfair/src/main.rs: keyword validation, construction of the       *)
(*     Playfair grid, bigram encryption and decryption;                    *)
(*   - DES/src/main.rs: the DES key generator (PC-1 permutation).          *)
(*                                                                         *)
(* A Rust char is modelled by its Unicode scalar value, a String by the    *)
(* sequence of its chars.  The code points that occur below:               *)
(*    49 '1'    65..90 'A'..'Z'    97..122 'a'..'z'                        *)
(*   201 E-acute   233 e-acute   223 sharp s (uppercases to "SS")          *)
(*   258/259 A-breve  194/226 A-circumflex  206/238 I-circumflex           *)
(*   536/537 S-comma  538/539 T-comma      (upper/lower case)              *)
(* A u64 is modelled by the set of the positions (0 = least significant)   *)
(* of its 1 bits, so that the width of 64 bits is kept by the shifts.      *)
(***************************************************************************)
EXTENDS Integers, Sequences, FiniteSets, TLC

VARIABLES
    pc,         \* position of main() of the program under study
    notice,     \* the last complaint printed by a get_valid_* loop
    key,        \* playfair main: key
    matrix,     \* playfair main: matrix
    operation,  \* playfair main: operation
    message,    \* playfair main: message
    output,     \* playfair main: ciphertext / decrypted_message
    key_bytes,  \* DES: the input of DesKeyGenerator::new
    raw_key,    \* DES: DesKeyGenerator.raw_key
    k_plus,     \* DES: DesKeyGenerator.k_plus
    test_cases, \* DES main: the test cases the loop has not taken yet
    printed     \* DES main: what debug_print has printed, one entry per key

vars == <<pc, notice, key, matrix, operation, message, output,
          key_bytes, raw_key, k_plus, test_cases, printed>>

---------------------------------------------------------------------------
(* Bounds of the model *)

\* longest keyword line typed at the key prompt (in chars)
MaxKeyLen == 7
\* longest message line typed at the message prompt (in chars)
MaxMsgLen == 3
\* longest byte sequence handed to DesKeyGenerator::new
MaxKeyBytes == 9

BoundedSeqs(S, n) == UNION {[1..k -> S] : k \in 0..n}

---------------------------------------------------------------------------
(* Rust's char and str primitives, on the chars of the model *)

\* char::is_alphabetic, for the code points below 592 (Basic Latin, Latin-1,
\* Latin Extended-A and B)
is_alphabetic(c) ==
    \/ c \in 65..90
    \/ c \in 97..122
    \/ c \in {170, 181, 186}
    \/ c \in (192..214) \cup (216..246) \cup (248..591)

\* char::len_utf8
len_utf8(c) ==
    IF c < 128 THEN 1 ELSE IF c < 2048 THEN 2 ELSE IF c < 65536 THEN 3 ELSE 4

\* str::len: the length in bytes of the UTF-8 encoding
RECURSIVE str_len(_)
str_len(s) == IF s = <<>> THEN 0 ELSE len_utf8(Head(s)) + str_len(Tail(s))

\* char::to_uppercase, which yields one char or several, for ASCII, the
\* Latin-1 letters 192..254 and the Romanian letters
char_to_uppercase(c) ==
    IF c \in 97..122 THEN <<c - 32>>
    ELSE IF c = 223 THEN <<83, 83>>
    ELSE IF c \in (224..254) \ {247} THEN <<c - 32>>
    ELSE IF c \in {259, 537, 539} THEN <<c - 1>>
    ELSE <<c>>

\* str::to_uppercase
RECURSIVE to_uppercase(_)
to_uppercase(s) ==
    IF s = <<>> THEN <<>> ELSE char_to_uppercase(Head(s)) \o to_uppercase(Tail(s))

\* str::replace('J', "I")
replace_J_I(s) == [i \in 1..Len(s) |-> IF s[i] = 74 THEN 73 ELSE s[i]]

\* membership of a char in a string or vector (str::contains, Vec::contains)
contains(s, c) == \E i \in 1..Len(s) : s[i] = c

---------------------------------------------------------------------------
(* playfair/src/main.rs *)

\* the literal of validate_text: a-breve, a-circumflex, i-circumflex,
\* s-comma, t-comma
RomanianLower == <<259, 226, 238, 537, 539>>

validate_text(text) ==
    \A i \in 1..Len(text) : is_alphabetic(text[i]) \/ contains(RomanianLower, text[i])

\* the least key.len() that validate_key accepts
MinKeyLen == 7

validate_key(k) == str_len(k) >= MinKeyLen /\ validate_text(k)

\* the loop of remove_duplicates, from the state (result, seen)
RECURSIVE remove_duplicates_loop(_, _, _)
remove_duplicates_loop(rest, result, seen) ==
    IF rest = <<>> THEN result
    ELSE IF Head(rest) \notin seen
         THEN remove_duplicates_loop(Tail(rest), Append(result, Head(rest)),
                                     seen \cup {Head(rest)})
         ELSE remove_duplicates_loop(Tail(rest), result, seen)

remove_duplicates(k) == remove_duplicates_loop(k, <<>>, {})

\* "ABCDEFGHIKLMNOPQRSTUVWXYZ" and the five Romanian capitals
alphabet ==
    <<65, 66, 67, 68, 69, 70, 71, 72, 73, 75, 76, 77, 78, 79, 80, 81, 82, 83,
      84, 85, 86, 87, 88, 89, 90, 258, 194, 206, 536, 538>>

\* the number of columns of the grid
Columns == 5

\* the filler of an incomplete last row, 'X'
Filler == 88

\* the loop that appends the alphabet chars not yet in all_chars: the turn for
\* rest[i] pushes it unless all_chars, as grown by the earlier turns, contains it
add_remaining(rest, all_chars) ==
    LET pushed(i) == /\ ~contains(all_chars, rest[i])
                     /\ \A j \in 1..(i - 1) : rest[j] # rest[i]
        kept == {i \in 1..Len(rest) : pushed(i)}
        nth(n) == CHOOSE i \in kept : Cardinality({j \in kept : j <= i}) = n
    IN  all_chars \o [n \in 1..Cardinality(kept) |-> rest[nth(n)]]

\* the loop that cuts all_chars into rows, from the state (matrix, current_row):
\* a row is pushed each time current_row reaches Columns chars, and what is left
\* after the loop is filled and pushed as the last row
fill_matrix(rest, m, current_row) ==
    LET chars == current_row \o rest
        full == Len(chars) \div Columns
        left == Len(chars) % Columns
        rows == [r \in 1..full |-> [c \in 1..Columns |-> chars[(r - 1) * Columns + c]]]
        last_row == [c \in 1..left |-> chars[full * Columns + c]]
    IN  IF left # 0
        THEN Append(m \o rows, last_row \o [i \in 1..(Columns - left) |-> Filler])
        ELSE m \o rows

create_matrix(k) ==
    LET key_processed == remove_duplicates(replace_J_I(to_uppercase(k)))
        all_chars == add_remaining(alphabet, key_processed)
    IN  fill_matrix(all_chars, <<>>, <<>>)

\* Option<(usize, usize)>
None == <<>>

\* matrix[r][c], rows and columns counted from 0 as in the code
Cell(m, r, c) == m[r + 1][c + 1]

\* the first cell, in row-major order, that holds c
find_position(m, c) ==
    LET hits == {p \in (0..(Len(m) - 1)) \X (0..(Columns - 1)) : Cell(m, p[1], p[2]) = c}
    IN  IF hits = {} THEN None
        ELSE CHOOSE p \in hits :
                \A q \in hits : p[1] < q[1] \/ (p[1] = q[1] /\ p[2] <= q[2])

\* encrypt_chunk with the column test before the row test
encrypt_chunk_column_first(m, chunk) ==
    LET c1 == chunk[1]
        c2 == chunk[Len(chunk)]
        p1 == find_position(m, c1)
        p2 == find_position(m, c2)
        rows == Len(m)
    IN  IF p1 # None /\ p2 # None
        THEN IF p1[2] = p2[2]
             THEN <<Cell(m, (p1[1] + 1) % rows, p1[2]), Cell(m, (p2[1] + 1) % rows, p2[2])>>
             ELSE IF p1[1] = p2[1]
             THEN <<Cell(m, p1[1], (p1[2] + 1) % 5), Cell(m, p2[1], (p2[2] + 1) % 5)>>
             ELSE <<Cell(m, p1[1], p2[2]), Cell(m, p2[1], p1[2])>>
        ELSE IF Len(chunk) > 1 THEN <<c1, c2>> ELSE <<c1>>

\* one chunk of text_chars.chunks(2) in encrypt_playfair: the chars pushed to result
encrypt_chunk(m, chunk) ==
    LET c1 == chunk[1]
        c2 == chunk[Len(chunk)]
        p1 == find_position(m, c1)
        p2 == find_position(m, c2)
        rows == Len(m)
    IN  IF p1 # None /\ p2 # None
        THEN LET r1 == p1[1]
                 c1_pos == p1[2]
                 r2 == p2[1]
                 c2_pos == p2[2]
             IN  IF r1 = r2
                 THEN <<Cell(m, r1, (c1_pos + 1) % 5), Cell(m, r2, (c2_pos + 1) % 5)>>
                 ELSE IF c1_pos = c2_pos
                 THEN <<Cell(m, (r1 + 1) % rows, c1_pos), Cell(m, (r2 + 1) % rows, c2_pos)>>
                 ELSE <<Cell(m, r1, c2_pos), Cell(m, r2, c1_pos)>>
        ELSE IF Len(chunk) > 1 THEN <<c1, c2>> ELSE <<c1>>

\* decrypt_chunk whose fallback pushes the second char before the first
decrypt_chunk_swapped_fallback(m, chunk) ==
    LET c1 == chunk[1]
        c2 == chunk[Len(chunk)]
        p1 == find_position(m, c1)
        p2 == find_position(m, c2)
        rows == Len(m)
    IN  IF p1 # None /\ p2 # None
        THEN IF p1[1] = p2[1]
             THEN <<Cell(m, p1[1], (p1[2] + 4) % 5), Cell(m, p2[1], (p2[2] + 4) % 5)>>
             ELSE IF p1[2] = p2[2]
             THEN <<Cell(m, (p1[1] + rows - 1) % rows, p1[2]),
                    Cell(m, (p2[1] + rows - 1) % rows, p2[2])>>
             ELSE <<Cell(m, p1[1], p2[2]), Cell(m, p2[1], p1[2])>>
        ELSE IF Len(chunk) > 1 THEN <<c2, c1>> ELSE <<c1>>

\* one chunk of the loop of decrypt_playfair
decrypt_chunk(m, chunk) ==
    LET c1 == chunk[1]
        c2 == chunk[Len(chunk)]
        p1 == find_position(m, c1)
        p2 == find_position(m, c2)
        rows == Len(m)
    IN  IF p1 # None /\ p2 # None
        THEN LET r1 == p1[1]
                 c1_pos == p1[2]
                 r2 == p2[1]
                 c2_pos == p2[2]
             IN  IF r1 = r2
                 THEN <<Cell(m, r1, (c1_pos + 4) % 5), Cell(m, r2, (c2_pos + 4) % 5)>>
                 ELSE IF c1_pos = c2_pos
                 THEN <<Cell(m, (r1 + rows - 1) % rows, c1_pos),
                        Cell(m, (r2 + rows - 1) % rows, c2_pos)>>
                 ELSE <<Cell(m, r1, c2_pos), Cell(m, r2, c1_pos)>>
        ELSE IF Len(chunk) > 1 THEN <<c1, c2>> ELSE <<c1>>

\* slice::chunks(2): the first chunk and what follows it
first_chunk(chars) == SubSeq(chars, 1, IF Len(chars) >= 2 THEN 2 ELSE Len(chars))
after_chunk(chars) == SubSeq(chars, Len(first_chunk(chars)) + 1, Len(chars))

RECURSIVE encrypt_loop(_, _)
encrypt_loop(m, chars) ==
    IF chars = <<>> THEN <<>>
    ELSE encrypt_chunk(m, first_chunk(chars)) \o encrypt_loop(m, after_chunk(chars))

\* encrypt_text_chars without the padding of an odd number of chars
encrypt_text_chars_unpadded(text) == replace_J_I(to_uppercase(text))

\* the text of encrypt_playfair after uppercasing, the merge of J into I and
\* the padding of an odd number of chars with 'X'
encrypt_text_chars(text) ==
    LET t == replace_J_I(to_uppercase(text))
    IN  IF Len(t) % 2 # 0 THEN Append(t, 88) ELSE t

encrypt_playfair(m, text) == encrypt_loop(m, encrypt_text_chars(text))

RECURSIVE decrypt_loop(_, _)
decrypt_loop(m, chars) ==
    IF chars = <<>> THEN <<>>
    ELSE decrypt_chunk(m, first_chunk(chars)) \o decrypt_loop(m, after_chunk(chars))

\* decrypt_playfair that pads an odd number of chars as encrypt_playfair does
decrypt_playfair_padded(m, text) == decrypt_loop(m, encrypt_text_chars(to_uppercase(text)))

decrypt_playfair(m, text) == decrypt_loop(m, to_uppercase(text))

\* str::trim, for the white space of the model (the space, 32)
RECURSIVE trim_start(_)
trim_start(s) == IF s # <<>> /\ Head(s) = 32 THEN trim_start(Tail(s)) ELSE s
RECURSIVE trim_end(_)
trim_end(s) ==
    IF s # <<>> /\ s[Len(s)] = 32 THEN trim_end(SubSeq(s, 1, Len(s) - 1)) ELSE s
trim(s) == trim_end(trim_start(s))

\* str::parse::<u32> of a short line: decimal digits after an optional '+';
\* Err is modelled by -1
RECURSIVE digits_value(_, _)
digits_value(s, acc) ==
    IF s = <<>> THEN acc ELSE digits_value(Tail(s), 10 * acc + (Head(s) - 48))
parse_u32(s) ==
    LET d == IF s # <<>> /\ Head(s) = 43 THEN Tail(s) ELSE s
    IN  IF d # <<>> /\ \A i \in 1..Len(d) : d[i] \in 48..57
        THEN digits_value(d, 0)
        ELSE -1

---------------------------------------------------------------------------
(* The lines typed at the prompts of playfair's main *)

\* keyword chars: 'I', 'j', a-breve (2 bytes), e-acute (a letter outside the
\* alphabet, 2 bytes) and the digit '1'
KeyPool == {73, 106, 259, 233, 49}

\* "MONARCHY", " playfair " and "AB"
MONARCHY == <<77, 79, 78, 65, 82, 67, 72, 89>>
ExtraKeyLines ==
    {MONARCHY, <<32, 112, 108, 97, 121, 102, 97, 105, 114, 32>>, <<65, 66>>}

\* every line typed at the key prompt when the grid is studied
KeyLines == BoundedSeqs(KeyPool, MaxKeyLen) \cup ExtraKeyLines

\* the key lines of the whole program: "MONARCHY", " playfair ", "AB",
\* "abc1234", four a-breve, and 'e-acute' followed by "abcdef"
MainKeyLines ==
    ExtraKeyLines \cup
    {<<97, 98, 99, 49, 50, 51, 52>>, <<259, 259, 259, 259>>,
     <<233, 97, 98, 99, 100, 101, 102>>}

\* "1", "2", "3", "+1", " 2", "x" and the empty line
OperationLines == {<<49>>, <<50>>, <<51>>, <<43, 49>>, <<32, 50>>, <<120>>, <<>>}

\* message chars: 'A', 'm', 'J', 'X', 'U', T-comma, sharp s, E-acute, '1'
MsgPool == {65, 109, 74, 88, 85, 538, 223, 201, 49}

\* "HELLO" and "hello"
ExtraMessageLines == {<<72, 69, 76, 76, 79>>, <<104, 101, 108, 108, 111>>}

MessageLines == BoundedSeqs(MsgPool, MaxMsgLen) \cup ExtraMessageLines

---------------------------------------------------------------------------
(* playfair's main: one action per step *)

Init ==
    /\ pc = "get_key"
    /\ notice = "none"
    /\ key = <<>>
    /\ matrix = <<>>
    /\ operation = 0
    /\ message = <<>>
    /\ output = <<>>
    /\ key_bytes = <<>>
    /\ raw_key = <<>>
    /\ k_plus = {}
    /\ test_cases = <<>>
    /\ printed = <<>>

des_vars == <<key_bytes, raw_key, k_plus, test_cases, printed>>

\* one turn of the loop of get_valid_key on a line of `lines`
get_valid_key(lines) ==
    /\ pc = "get_key"
    /\ \E line \in lines :
          IF validate_key(trim(line))
          THEN /\ key' = trim(line)
               /\ pc' = "create_matrix"
               /\ UNCHANGED notice
          ELSE /\ notice' = "bad_key"
               /\ UNCHANGED <<pc, key>>
    /\ UNCHANGED <<matrix, operation, message, output, des_vars>>

\* let matrix = create_matrix(&key)
main_create_matrix ==
    /\ pc = "create_matrix"
    /\ matrix' = create_matrix(key)
    /\ pc' = "get_operation"
    /\ UNCHANGED <<notice, key, operation, message, output, des_vars>>

\* one turn of the loop of get_valid_operation
get_valid_operation ==
    /\ pc = "get_operation"
    /\ \E line \in OperationLines :
          IF parse_u32(trim(line)) \in {1, 2}
          THEN /\ operation' = parse_u32(trim(line))
               /\ pc' = "get_message"
               /\ UNCHANGED notice
          ELSE /\ notice' = "bad_operation"
               /\ UNCHANGED <<pc, operation>>
    /\ UNCHANGED <<key, matrix, message, output, des_vars>>

\* one turn of the loop of get_valid_message
get_valid_message ==
    /\ pc = "get_message"
    /\ \E line \in MessageLines :
          IF validate_text(trim(line))
          THEN /\ message' = trim(line)
               /\ pc' = "run"
               /\ UNCHANGED notice
          ELSE /\ notice' = "bad_message"
               /\ UNCHANGED <<pc, message>>
    /\ UNCHANGED <<key, matrix, operation, output, des_vars>>

\* match operation { 1 => encrypt_playfair(&matrix, &message) ... }
main_encrypt ==
    /\ pc = "run"
    /\ operation = 1
    /\ output' = encrypt_playfair(matrix, message)
    /\ pc' = "done"
    /\ UNCHANGED <<notice, key, matrix, operation, message, des_vars>>

\* match operation { 2 => decrypt_playfair(&matrix, &message) ... }
main_decrypt ==
    /\ pc = "run"
    /\ operation = 2
    /\ output' = decrypt_playfair(matrix, message)
    /\ pc' = "done"
    /\ UNCHANGED <<notice, key, matrix, operation, message, des_vars>>

Next ==
    \/ get_valid_key(MainKeyLines)
    \/ main_create_matrix
    \/ get_valid_operation
    \/ get_valid_message
    \/ main_encrypt
    \/ main_decrypt

\* the whole of playfair's main
Spec == Init /\ [][Next]_vars

NextMatrix ==
    \/ get_valid_key(KeyLines)
    \/ main_create_matrix

\* playfair's main up to the construction of the grid, on every line of KeyLines
SpecMatrix == Init /\ [][NextMatrix]_vars

---------------------------------------------------------------------------
(* DES/src/main.rs *)

\* PC1 with its entry 7 mistyped as 8, the parity bit of the first byte
PC1_reads_parity_bit ==
    <<57, 49, 41, 33, 25, 17,  9,  1,
      58, 50, 42, 34, 26, 18, 10,  2,
      59, 51, 43, 35, 27, 19, 11,  3,
      60, 52, 44, 36, 63, 55, 47, 39,
      31, 23, 15,  8, 62, 54, 46, 38,
      30, 22, 14,  6, 61, 53, 45, 37,
      29, 21, 13,  5, 28, 20, 12,  4>>

\* PC-1 Permutation table for initial key permutation
PC1 ==
    <<57, 49, 41, 33, 25, 17,  9,  1,
      58, 50, 42, 34, 26, 18, 10,  2,
      59, 51, 43, 35, 27, 19, 11,  3,
      60, 52, 44, 36, 63, 55, 47, 39,
      31, 23, 15,  7, 62, 54, 46, 38,
      30, 22, 14,  6, 61, 53, 45, 37,
      29, 21, 13,  5, 28, 20, 12,  4>>

\* 2^k
RECURSIVE pow2(_)
pow2(k) == IF k = 0 THEN 1 ELSE 2 * pow2(k - 1)

\* u64 arithmetic on the sets of 1 bits: `byte as u64`, <<, >>, & 1
u64_from_u8(byte) == {k \in 0..7 : (byte \div pow2(k)) % 2 = 1}
u64_shl(x, n) == {b + n : b \in x} \cap (0..63)
u64_shr(x, n) == {b - n : b \in {c \in x : c >= n}}
u64_and_1(x) == x \cap {0}

\* for (i, &byte) in key_bytes.iter().enumerate(), i counting from 0: the
\* turns i, i + 1, ... of the loop, each of which ORs one term into key_64bit
pack_loop(bytes, i, key_64bit) ==
    key_64bit \cup
    UNION {u64_shl(u64_from_u8(bytes[j + 1]), 56 - j * 8) : j \in i..(Len(bytes) - 1)}

\* for (i, &pos) in PC1.iter().enumerate(), i counting from 0: the turns
\* i, i + 1, ... of the loop, each of which ORs one bit into k_plus (acc)
pc1_loop(key_64bit, i, acc) ==
    acc \cup
    UNION {LET pos == PC1[j + 1]
               bit == u64_and_1(u64_shr(key_64bit, 64 - pos))
           IN  u64_shl(bit, 55 - j) : j \in i..(Len(PC1) - 1)}

\* Result<u64, Box<dyn Error>>
Ok(v) == [ok |-> TRUE, value |-> v]

\* process_standard_key that reads source bit (63 - pos) for table entry pos
pc1_loop_off_by_one(key_64bit, i, acc) ==
    acc \cup
    UNION {u64_shl(u64_and_1(u64_shr(key_64bit, 63 - PC1[j + 1])), 55 - j) :
              j \in i..(Len(PC1) - 1)}
process_standard_key_off_by_one(bytes) ==
    Ok(pc1_loop_off_by_one(pack_loop(bytes, 0, {}), 0, {}))

process_standard_key(bytes) ==
    LET key_64bit == pack_loop(bytes, 0, {})
    IN  Ok(pc1_loop(key_64bit, 0, {}))

\* process_key that pads a short key on the left and keeps the last 8 bytes of
\* a long one
process_key_other_end(bytes) ==
    IF Len(bytes) = 8 THEN process_standard_key(bytes)
    ELSE IF Len(bytes) \in 0..7
    THEN process_standard_key([i \in 1..8 |-> IF i <= 8 - Len(bytes) THEN 0
                                              ELSE bytes[i - (8 - Len(bytes))]])
    ELSE process_standard_key(SubSeq(bytes, Len(bytes) - 7, Len(bytes)))

process_key(bytes) ==
    IF Len(bytes) = 8 THEN process_standard_key(bytes)
    ELSE IF Len(bytes) \in 0..7
    THEN LET padded_key == [i \in 1..8 |-> IF i <= Len(bytes) THEN bytes[i] ELSE 0]
         IN  process_standard_key(padded_key)
    ELSE LET truncated_key == SubSeq(bytes, 1, 8)
         IN  process_standard_key(truncated_key)

\* the bytes of the keys: 0x4D and its complement 0xB2
BytePool == {77, 178}

\* the test cases of main: "MORTYNOR", "SHORT", "TOOLONGKEY123456", the empty
\* input and AA BB CC DD EE FF
MainTestCases ==
    {<<77, 79, 82, 84, 89, 78, 79, 82>>,
     <<83, 72, 79, 82, 84>>,
     <<84, 79, 79, 76, 79, 78, 71, 75, 69, 89, 49, 50, 51, 52, 53, 54>>,
     <<>>,
     <<170, 187, 204, 221, 238, 255>>}

ByteInputs == BoundedSeqs(BytePool, MaxKeyBytes) \cup MainTestCases

playfair_vars == <<notice, key, matrix, operation, message, output>>

\* main is about to call DesKeyGenerator::new(&key)
InitDes ==
    /\ pc = "des_new"
    /\ key_bytes \in ByteInputs
    /\ raw_key = <<>>
    /\ k_plus = {}
    /\ test_cases = <<>>
    /\ printed = <<>>
    /\ notice = "none"
    /\ key = <<>>
    /\ matrix = <<>>
    /\ operation = 0
    /\ message = <<>>
    /\ output = <<>>

DesKeyGenerator_new ==
    /\ pc = "des_new"
    /\ LET processed_key == process_key(key_bytes)
       IN  IF processed_key.ok
           THEN /\ raw_key' = key_bytes
                /\ k_plus' = processed_key.value
                /\ pc' = "des_ok"
           ELSE /\ pc' = "des_err"
                /\ UNCHANGED <<raw_key, k_plus>>
    /\ UNCHANGED <<key_bytes, test_cases, printed, playfair_vars>>

NextDes == DesKeyGenerator_new

\* one key generation of DES's main
SpecDes == InitDes /\ [][NextDes]_vars

\* byte ^ (1 << b)
FlipBit(byte, b) ==
    IF (byte \div pow2(b)) % 2 = 1 THEN byte - pow2(b) ELSE byte + pow2(b)

\* the first keys of the pairs: six bytes of BytePool followed by 0x4D 0xB2,
\* and "MORTYNOR"
Keys8 ==
    {k \o <<77, 178>> : k \in [1..6 -> BytePool]}
    \cup {<<77, 79, 82, 84, 89, 78, 79, 82>>}

\* the keys a key k is compared with: k itself, k with one of its 64 bits
\* flipped, k with the least significant bit of every byte flipped, k with
\* the least significant bits of its first two bytes flipped, and k with one
\* byte replaced by a byte of BytePool
KeysNear(k) ==
    {k}
    \cup {[k EXCEPT ![j] = FlipBit(k[j], b)] : j \in 1..8, b \in 0..7}
    \cup {[j \in 1..8 |-> FlipBit(k[j], 0)]}
    \cup {[j \in 1..8 |-> IF j <= 2 THEN FlipBit(k[j], 0) ELSE k[j]]}
    \cup {[k EXCEPT ![j] = y] : j \in 1..8, y \in BytePool}

\* main with two test cases: the loop has taken none yet
InitDesPair ==
    /\ pc = "des_loop"
    /\ \E k1 \in Keys8 : \E k2 \in KeysNear(k1) : test_cases = <<k1, k2>>
    /\ key_bytes = <<>>
    /\ raw_key = <<>>
    /\ k_plus = {}
    /\ printed = <<>>
    /\ notice = "none"
    /\ key = <<>>
    /\ matrix = <<>>
    /\ operation = 0
    /\ message = <<>>
    /\ output = <<>>

\* for key in test_cases: the loop takes the next test case
main_next_test_case ==
    /\ pc = "des_loop"
    /\ test_cases # <<>>
    /\ key_bytes' = Head(test_cases)
    /\ test_cases' = Tail(test_cases)
    /\ pc' = "des_new"
    /\ UNCHANGED <<raw_key, k_plus, printed, playfair_vars>>

\* the arms of match DesKeyGenerator::new(&key): Ok calls key_gen.debug_print(),
\* which prints raw_key and k_plus in full ({:014X} pads and never truncates);
\* Err prints the error
debug_print ==
    /\ pc \in {"des_ok", "des_err"}
    /\ printed' = IF pc = "des_ok"
                  THEN Append(printed, [raw_key |-> raw_key, k_plus |-> k_plus])
                  ELSE printed
    /\ pc' = "des_loop"
    /\ UNCHANGED <<key_bytes, raw_key, k_plus, test_cases, playfair_vars>>

NextDesPair ==
    \/ main_next_test_case
    \/ DesKeyGenerator_new
    \/ debug_print

\* DES's main on two test cases of 8 bytes
SpecDesPair == InitDesPair /\ [][NextDesPair]_vars

---------------------------------------------------------------------------
(* Properties *)

\* the cells of a grid in row-major order
RECURSIVE Flatten(_)
Flatten(m) == IF m = <<>> THEN <<>> ELSE Head(m) \o Flatten(Tail(m))

\* a char occupies some cell of the grid
InGrid(m, c) == \E r \in 1..Len(m) : \E j \in 1..Len(m[r]) : m[r][j] = c

\* the number of cells of the grid that hold c
CellsHolding(m, c) == Cardinality({i \in 1..Len(Flatten(m)) : Flatten(m)[i] = c})

\* a text extended with one 'X' when its number of chars is odd
PadX(t) == IF Len(t) % 2 = 1 THEN Append(t, 88) ELSE t

\* the k-th bigram of a text of even length (k counts from 1)
Bigram(t, k) == <<t[2 * k - 1], t[2 * k]>>

Encrypted == pc = "done" /\ operation = 1
Decrypted == pc = "done" /\ operation = 2

\* C1: round trip.  Once a message m is encrypted under the grid of an
\* accepted keyword, and every char of m' (m uppercased and, if of odd length,
\* extended with one 'X') is a symbol of the grid (so that no bigram takes the
\* symbol-not-found fallback in either direction) and no bigram of m' is made
\* of two identical letters, decrypting the ciphertext under the same grid
\* yields m'.
C1_RoundTrip ==
    Encrypted =>
        LET mp == PadX(to_uppercase(message))
        IN  (/\ \A i \in 1..Len(mp) : InGrid(matrix, mp[i])
             /\ \A k \in 1..(Len(mp) \div 2) : mp[2 * k - 1] # mp[2 * k])
            => decrypt_playfair(matrix, output) = mp

\* C2: the grid built from an accepted keyword holds every symbol of the
\* alphabet in exactly one cell, and no symbol occupies two cells.
C2_EverySymbolOnce ==
    pc = "get_operation" =>
        /\ \A i \in 1..Len(alphabet) : CellsHolding(matrix, alphabet[i]) = 1
        /\ \A i, j \in 1..Len(Flatten(matrix)) :
              i # j => Flatten(matrix)[i] # Flatten(matrix)[j]

\* C3: key derivation depends only on the normalized 8-byte key.  For every
\* byte sequence DesKeyGenerator::new succeeds, and k_plus is what process_key
\* returns for the first min(len, 8) bytes followed by zero bytes up to 8.
NormalizedKey(b) == [i \in 1..8 |-> IF i <= Len(b) THEN b[i] ELSE 0]
C3_NormalizedKeyOnly ==
    /\ pc # "des_err"
    /\ pc = "des_ok" =>
          /\ process_key(NormalizedKey(key_bytes)).ok
          /\ k_plus = process_key(NormalizedKey(key_bytes)).value
          /\ raw_key = key_bytes
C3_Witness ==
    /\ pc = "des_ok"
    /\ Len(key_bytes) = 5
    /\ k_plus # {}

\* C4: for an 8-byte key, bits 56..63 of k_plus are zero and bit (55 - i), for
\* i in 0..55, is bit (64 - PC1[i]) of the big-endian packing of the key, in
\* which bit n belongs to byte 7 - n div 8 and is bit n mod 8 of that byte.
PackedBit(b, n) == (b[(7 - (n \div 8)) + 1] \div pow2(n % 8)) % 2
C4_PC1Bits ==
    (pc = "des_ok" /\ Len(key_bytes) = 8) =>
        /\ k_plus \subseteq 0..55
        /\ \A i \in 0..55 :
              (55 - i \in k_plus) <=> (PackedBit(key_bytes, 64 - PC1[i + 1]) = 1)
C4_Witness ==
    /\ pc = "des_ok"
    /\ Len(key_bytes) = 8
    /\ k_plus # {}
    /\ \E i \in 0..55 : 55 - i \notin k_plus

\* C5: only keywords of at least 7 characters, all of them letters, are
\* accepted and reach create_matrix: a keyword of fewer than 7 characters or
\* with a character that is no letter is rejected.
C5_OnlyLongAlphabeticKeys ==
    pc \in {"create_matrix", "get_operation"} =>
        /\ Len(key) >= 7
        /\ \A i \in 1..Len(key) : is_alphabetic(key[i])

\* C6: encrypt_playfair pads an odd text.  With n the number of chars of the
\* uppercased message, the text is extended with one 'X' when n is odd, is cut
\* into consecutive bigrams that do not overlap, each of which yields one
\* bigram of the output, so that the output has n + (n mod 2) chars; "HELLO"
\* is processed as "HELLOX" and yields 3 bigrams.
C6_OddInputPadded ==
    Encrypted =>
        LET t == replace_J_I(to_uppercase(message))
            n == Len(to_uppercase(message))
            p == PadX(t)
        IN  /\ Len(output) = n + (n % 2)
            /\ Len(output) \div 2 = (n + 1) \div 2
            /\ \A k \in 1..(Len(p) \div 2) :
                  Bigram(output, k) = encrypt_chunk(matrix, Bigram(p, k))
            /\ message = <<72, 69, 76, 76, 79>> =>
                  /\ Len(output) = 6
                  /\ Bigram(output, 3) = encrypt_chunk(matrix, <<79, 88>>)
C6_Witness ==
    /\ Encrypted
    /\ Len(to_uppercase(message)) = 3
    /\ output[Len(output)] # 88

\* C7: the symbol-not-found fallback passes a bigram through.  After
\* encrypt_playfair or decrypt_playfair has returned, every bigram of the text
\* it paired with a char that is in no cell of the grid is in the output as it
\* was, in order, and every other bigram is substituted as it is when it is
\* the whole text.
C7_FallbackPassThrough ==
    pc = "done" =>
        LET t == IF operation = 1 THEN PadX(replace_J_I(to_uppercase(message)))
                 ELSE to_uppercase(message)
        IN  \A k \in 1..(Len(t) \div 2) :
               /\ Len(output) >= 2 * k
               /\ IF ~InGrid(matrix, t[2 * k - 1]) \/ ~InGrid(matrix, t[2 * k])
                  THEN Bigram(output, k) = Bigram(t, k)
                  ELSE Bigram(output, k) =
                          IF operation = 1 THEN encrypt_loop(matrix, Bigram(t, k))
                          ELSE decrypt_loop(matrix, Bigram(t, k))
C7_Witness ==
    /\ Decrypted
    /\ Len(message) = 3
    /\ InGrid(matrix, message[1])
    /\ ~InGrid(matrix, message[2])
    /\ message[1] # message[2]
    /\ Len(output) = 4

\* C8: grid ordering.  The cells of the grid of an accepted keyword, read row
\* by row, are the chars of the uppercased keyword with J merged into I, each
\* at its first occurrence only, followed by the chars of the alphabet that
\* are not among them, in the order of the alphabet; the grid of "MONARCHY"
\* starts with the rows MONAR, CHYBD, EFGIK, LPQST, UVWXZ.
RECURSIVE FirstOccurrencesUpTo(_, _)
FirstOccurrencesUpTo(t, n) ==
    IF n = 0 THEN <<>>
    ELSE IF \E j \in 1..(n - 1) : t[j] = t[n]
         THEN FirstOccurrencesUpTo(t, n - 1)
         ELSE Append(FirstOccurrencesUpTo(t, n - 1), t[n])
FirstOccurrences(t) == FirstOccurrencesUpTo(t, Len(t))
NotIn(t, c) == \A i \in 1..Len(t) : t[i] # c
C8_GridOrder ==
    pc = "get_operation" =>
        LET kp == FirstOccurrences(replace_J_I(to_uppercase(key)))
        IN  /\ Flatten(matrix) = kp \o SelectSeq(alphabet, LAMBDA c : NotIn(kp, c))
            /\ key = MONARCHY =>
                  SubSeq(matrix, 1, 5) =
                     << <<77, 79, 78, 65, 82>>, <<67, 72, 89, 66, 68>>,
                        <<69, 70, 71, 73, 75>>, <<76, 80, 81, 83, 84>>,
                        <<85, 86, 87, 88, 90>> >>

\* C9: the substitution rule of encrypt_playfair.  A bigram (a, b) whose chars
\* are in the grid at (r1, c1) and (r2, c2) is replaced, R being the number of
\* rows, by the right neighbours in the row, cyclically, when r1 = r2 (also
\* when a = b), else by the neighbours below in the column, cyclically, when
\* c1 = c2, else by (matrix[r1][c2], matrix[r2][c1]).
C9_EncodeRule ==
    Encrypted =>
        LET t == PadX(replace_J_I(to_uppercase(message)))
            R == Len(matrix)
        IN  \A k \in 1..(Len(t) \div 2) :
               (InGrid(matrix, t[2 * k - 1]) /\ InGrid(matrix, t[2 * k])) =>
                  LET a == find_position(matrix, t[2 * k - 1])
                      b == find_position(matrix, t[2 * k])
                  IN  /\ Len(output) >= 2 * k
                      /\ Bigram(output, k) =
                            IF a[1] = b[1]
                            THEN <<Cell(matrix, a[1], (a[2] + 1) % 5),
                                   Cell(matrix, b[1], (b[2] + 1) % 5)>>
                            ELSE IF a[2] = b[2]
                            THEN <<Cell(matrix, (a[1] + 1) % R, a[2]),
                                   Cell(matrix, (b[1] + 1) % R, b[2])>>
                            ELSE <<Cell(matrix, a[1], b[2]), Cell(matrix, b[1], a[2])>>
C9_Witness ==
    /\ Encrypted
    /\ Len(message) = 2
    /\ message[1] = message[2]
    /\ InGrid(matrix, message[1])
    /\ output[1] # message[1]

\* the cyclic left neighbour, in its row, of a char of the grid
LeftNeighbour(m, c) ==
    LET p == find_position(m, c) IN Cell(m, p[1], (p[2] + 4) % 5)

\* what C10 says of a decryption whose input counts n chars
OddCiphertextRule(n) ==
    LET t == to_uppercase(message)
    IN  IF n % 2 = 0 THEN Len(output) = n
        ELSE LET c == t[Len(t)]
             IN  IF InGrid(matrix, c)
                 THEN /\ Len(output) = n + 1
                      /\ output[Len(output)] = LeftNeighbour(matrix, c)
                      /\ output[Len(output) - 1] = LeftNeighbour(matrix, c)
                 ELSE /\ Len(output) = n
                      /\ output[Len(output)] = c

\* C10 as stated: decrypt_playfair takes a ciphertext of an odd number of
\* chars, treats the last char c as the bigram (c, c), emits the left
\* neighbour of c twice when c is in the grid (the output is one char longer
\* than the input) and c once when it is not; for an input of an even number
\* of chars the output has as many chars as the input.
C10_OddCiphertext_Original == Decrypted => OddCiphertextRule(Len(message))

\* C10 as amended: the same, the chars being counted after the uppercasing
\* that decrypt_playfair starts with (which turns one sharp s into "SS").
C10_OddCiphertext == Decrypted => OddCiphertextRule(Len(to_uppercase(message)))
C10_Witness ==
    /\ Decrypted
    /\ Len(to_uppercase(message)) = 3
    /\ InGrid(matrix, to_uppercase(message)[3])
    /\ Len(output) = 4

\* the keys agree on the seven high-order bits of every byte
AgreeOnHighBits(a, b) == \A j \in 1..8 : a[j] \div 2 = b[j] \div 2

\* C11: the derived key material ignores exactly the parity bits.  Any two
\* 8-byte keys that main has processed have the same k_plus if and only if
\* they agree on the seven high-order bits of every byte: flipping the least
\* significant bit of a byte never changes k_plus, flipping any other bit does.
C11_ParityBitsIgnored ==
    \A i, j \in 1..Len(printed) :
        (Len(printed[i].raw_key) = 8 /\ Len(printed[j].raw_key) = 8) =>
            ((printed[i].k_plus = printed[j].k_plus)
               <=> AgreeOnHighBits(printed[i].raw_key, printed[j].raw_key))
C11_Witness ==
    /\ Len(printed) = 2
    /\ printed[1].raw_key # printed[2].raw_key
    /\ AgreeOnHighBits(printed[1].raw_key, printed[2].raw_key)
    /\ printed[1].k_plus = printed[2].k_plus
    /\ printed[1].k_plus # {}

====
